---- MODULE Spec2Model ----
(***************************************************************************)
(* Model of carpark_display.py: the tkinter WindowedDisplay (constructor,  *)
(* show, update) and the CarPark_Display process that builds one, starts   *)
(* the check_updates thread and blocks in the render loop.                  *)
(*                                                                         *)
(* A Python str is modelled as a sequence of chunks: a chunk is either the *)
(* separator character ":" or a non-empty run of other characters, so that *)
(* concatenation is \o and rstrip(':') removes the trailing ":" chunks.    *)
(*                                                                         *)
(* Spec     : a WindowedDisplay built from any field list of FieldLists,   *)
(*            with a background thread that calls update(payload).         *)
(* BootSpec : the process as written, CarPark_Display().                   *)
(***************************************************************************)
EXTENDS Naturals, Sequences, FiniteSets

VARIABLES
    main,            \* position of the main thread
    updater,         \* position of the background thread
    error,           \* the exception that ended the background thread
    window,          \* the tk window: "none", "open", "destroyed"
    title,           \* the window title
    display_fields,  \* self.display_fields
    gui_elements,    \* self.gui_elements, in insertion order
    screen,          \* the value texts as last painted
    painter,         \* the thread that executed the last repaint
    writer,          \* per row, the thread that last set the value label
    call,            \* the update call in progress
    prev,            \* the last update call that returned
    clients,         \* paho clients created by check_updates
    connects,        \* connect handshakes completed
    subscribes,      \* subscriptions made
    inbox            \* messages the broker has sent to this process

vars == <<main, updater, error, window, title, display_fields, gui_elements,
          screen, painter, writer, call, prev, clients, connects, subscribes,
          inbox>>

displayVars == <<gui_elements, screen, painter, writer, call, prev>>
brokerVars == <<clients, connects, subscribes, inbox>>

----------------------------------------------------------------------------
(* Bounds and input sets *)

MaxFields == 3
MaxClients == 2
MaxMsgs == 2

\* field names offered to the constructor: "A", "B" and "A:" (ends with SEP)
FieldNames == {<<"A">>, <<"B">>, <<"A", ":">>}

\* display strings a payload may carry
Values == {<<"1">>, <<"2">>}

FieldLists == UNION {[1..n -> FieldNames] : n \in 1..MaxFields}

Range(s) == {s[i] : i \in DOMAIN s}

\* payloads for a display: any mapping from some of its field names to Values
Payloads(fields) == UNION {[K -> Values] : K \in SUBSET Range(fields)}

NoCall == [active |-> FALSE]

----------------------------------------------------------------------------
(* WindowedDisplay *)

\* the placeholder, three en dashes separated by spaces, written in ASCII
DISPLAY_INIT == <<"- - -">>
SEP == <<":">>

FieldKey(i) == [kind |-> "field", i |-> i]
ValueKey(i) == [kind |-> "value", i |-> i]

\* tk.Label(text=field+SEP) placed with grid(row=i, column=0)
FieldLabel(i, field) ==
    [key |-> FieldKey(i), text |-> field \o SEP, row |-> i, column |-> 0]

\* variant: every value label is placed in row 0
ValueLabelRowZero(i) ==
    [key |-> ValueKey(i), text |-> DISPLAY_INIT, row |-> 0, column |-> 2]

\* tk.Label(text=DISPLAY_INIT) placed with grid(row=i, column=2)
ValueLabel(i) ==
    [key |-> ValueKey(i), text |-> DISPLAY_INIT, row |-> i, column |-> 2]

\* the dictionary the constructor's loop builds; i counts from 0 as enumerate
RECURSIVE BuildElements(_, _)
BuildElements(fields, n) ==
    IF n = 0 THEN <<>>
    ELSE BuildElements(fields, n - 1)
             \o <<FieldLabel(n - 1, fields[n]), ValueLabel(n - 1)>>

\* str.rstrip(chars) for a one-character chars
RECURSIVE RStrip(_, _)
RStrip(s, sep) ==
    IF s # <<>> /\ <<s[Len(s)]>> = sep
    THEN RStrip(SubSeq(s, 1, Len(s) - 1), sep)
    ELSE s

\* field.startswith('lbl_field')
IsFieldKey(key) == key.kind = "field"

\* field.replace('field', 'value')
ReplaceFieldByValue(key) == [key EXCEPT !.kind = "value"]

\* position of a key in the dictionary
IndexOf(elements, key) ==
    CHOOSE k \in DOMAIN elements : elements[k].key = key

\* variant: the new text is appended to the text shown
ConfigureAppend(label, text) == [label EXCEPT !.text = @ \o text]

\* label.configure(text=...)
Configure(label, text) == [label EXCEPT !.text = text]

\* the texts of the value labels, by row
ValueTexts(elements) ==
    [r \in 1..(Len(elements) \div 2) |->
        elements[IndexOf(elements, ValueKey(r - 1))].text]

----------------------------------------------------------------------------
(* The main thread: CarPark_Display.__init__ and WindowedDisplay.show *)

\* WindowedDisplay(title, display_fields)
Construct(t, fields) ==
    /\ main = "new"
    /\ window' = "open"
    /\ title' = t \o <<":", " Parking">>
    /\ display_fields' = fields
    /\ gui_elements' = BuildElements(fields, Len(fields))
    /\ writer' = [r \in 1..Len(fields) |-> "main"]
    /\ main' = "constructed"
    /\ UNCHANGED <<updater, error, screen, painter, call, prev>>
    /\ UNCHANGED brokerVars

\* threading.Thread(target=...), daemon = True, start()
StartThread(entry) ==
    /\ main = "constructed"
    /\ updater = "unstarted"
    /\ main' = "started"
    /\ updater' = entry
    /\ UNCHANGED <<error, window, title, display_fields>>
    /\ UNCHANGED displayVars
    /\ UNCHANGED brokerVars

\* self.window.show(): window.mainloop() is entered
Show ==
    /\ main = "started"
    /\ main' = "mainloop"
    /\ UNCHANGED <<updater, error, window, title, display_fields>>
    /\ UNCHANGED displayVars
    /\ UNCHANGED brokerVars

\* the render loop redraws the labels whose text changed
Repaint ==
    /\ main = "mainloop"
    /\ screen # ValueTexts(gui_elements)
    /\ screen' = ValueTexts(gui_elements)
    /\ painter' = "main"
    /\ UNCHANGED <<main, updater, error, window, title, display_fields>>
    /\ UNCHANGED <<gui_elements, writer, call, prev>>
    /\ UNCHANGED brokerVars

\* the user closes the window: mainloop returns, the process ends and the
\* daemon thread is abandoned
CloseWindow ==
    /\ main = "mainloop"
    /\ window' = "destroyed"
    /\ main' = "exited"
    /\ UNCHANGED <<updater, error, title, display_fields>>
    /\ UNCHANGED displayVars
    /\ UNCHANGED brokerVars

\* the background thread runs only while the process is alive
Alive == main \in {"started", "mainloop"}

\* variant: the exception also ends the main thread
RaiseIntoMain(exc) ==
    /\ updater' = "dead"
    /\ error' = exc
    /\ main' = "exited"

\* an exception nobody catches ends the thread it was raised in, and no other
Raise(exc) ==
    /\ updater' = "dead"
    /\ error' = exc
    /\ main' = main

----------------------------------------------------------------------------
(* WindowedDisplay.update, run by the background thread, one dictionary     *)
(* entry per step                                                           *)

UpdateCall(p) ==
    /\ Alive
    /\ updater = "idle"
    /\ updater' = "in_update"
    /\ call' = [active |-> TRUE, payload |-> p,
                before |-> ValueTexts(gui_elements), pos |-> 1]
    /\ UNCHANGED <<main, error, window, title, display_fields>>
    /\ UNCHANGED <<gui_elements, screen, painter, writer, prev>>
    /\ UNCHANGED brokerVars

\* the key looked up in updated_values for the field label at position k
LookupName(elements, k) == RStrip(elements[k].text, SEP)

\* loop body for a key that starts with 'lbl_field', the name being present
UpdateSet ==
    /\ Alive
    /\ updater = "in_update"
    /\ call.pos <= Len(gui_elements)
    /\ IsFieldKey(gui_elements[call.pos].key)
    /\ LookupName(gui_elements, call.pos) \in DOMAIN call.payload
    /\ LET field == gui_elements[call.pos].key
           field_value == ReplaceFieldByValue(field)
           k == IndexOf(gui_elements, field_value)
           text == call.payload[LookupName(gui_elements, call.pos)]
       IN  /\ gui_elements' =
                 [gui_elements EXCEPT ![k] = Configure(@, text)]
           /\ writer' = [writer EXCEPT ![field.i + 1] = "updater"]
    /\ call' = [call EXCEPT !.pos = @ + 1]
    /\ UNCHANGED <<main, updater, error, window, title, display_fields>>
    /\ UNCHANGED <<screen, painter, prev>>
    /\ UNCHANGED brokerVars

\* updated_values[...] raises KeyError: the loop is left, nothing is undone
UpdateKeyError ==
    /\ Alive
    /\ updater = "in_update"
    /\ call.pos <= Len(gui_elements)
    /\ IsFieldKey(gui_elements[call.pos].key)
    /\ LookupName(gui_elements, call.pos) \notin DOMAIN call.payload
    /\ Raise("KeyError")
    /\ UNCHANGED <<window, title, display_fields>>
    /\ UNCHANGED displayVars
    /\ UNCHANGED brokerVars

\* a key that does not start with 'lbl_field' is passed over
UpdateSkip ==
    /\ Alive
    /\ updater = "in_update"
    /\ call.pos <= Len(gui_elements)
    /\ ~IsFieldKey(gui_elements[call.pos].key)
    /\ call' = [call EXCEPT !.pos = @ + 1]
    /\ UNCHANGED <<main, updater, error, window, title, display_fields>>
    /\ UNCHANGED <<gui_elements, screen, painter, writer, prev>>
    /\ UNCHANGED brokerVars

\* self.window.update(): a synchronous redraw by the caller, then return
UpdateReturn ==
    /\ Alive
    /\ updater = "in_update"
    /\ call.pos > Len(gui_elements)
    /\ screen' = ValueTexts(gui_elements)
    /\ painter' = "updater"
    /\ prev' = [active |-> TRUE, payload |-> call.payload,
                after |-> ValueTexts(gui_elements)]
    /\ call' = NoCall
    /\ updater' = "idle"
    /\ UNCHANGED <<main, error, window, title, display_fields>>
    /\ UNCHANGED <<gui_elements, writer>>
    /\ UNCHANGED brokerVars

----------------------------------------------------------------------------
(* CarPark_Display.check_updates, the body of its while True loop *)

CarParkFields == <<<<"Available bays">>, <<"Temperature">>, <<"At">>>>
CarParkTitle == <<"Moondalup">>

\* paho.Client(PAHO_CLIENT_NAME)
NewClient ==
    /\ Alive
    /\ updater = "check_updates"
    /\ clients < MaxClients
    /\ clients' = clients + 1
    /\ updater' = "client"
    /\ UNCHANGED <<main, error, window, title, display_fields>>
    /\ UNCHANGED displayVars
    /\ UNCHANGED <<connects, subscribes, inbox>>

\* client.connect(PAHO_HOST, PAHO_PORT, PAHO_KEEP_ALIVE) succeeds
Connect ==
    /\ Alive
    /\ updater = "client"
    /\ connects' = connects + 1
    /\ updater' = "connected"
    /\ UNCHANGED <<main, error, window, title, display_fields>>
    /\ UNCHANGED displayVars
    /\ UNCHANGED <<clients, subscribes, inbox>>

\* client.connect raises: the broker cannot be reached
ConnectFail ==
    /\ Alive
    /\ updater = "client"
    /\ Raise("ConnectionRefusedError")
    /\ UNCHANGED <<window, title, display_fields>>
    /\ UNCHANGED displayVars
    /\ UNCHANGED brokerVars

\* variant: the loop body refreshes the display after subscribing
UpdateFromLoop ==
    /\ gui_elements' =
           [k \in DOMAIN gui_elements |->
               IF IsFieldKey(gui_elements[k].key) THEN gui_elements[k]
               ELSE Configure(gui_elements[k], <<"042">>)]
    /\ UNCHANGED <<screen, painter, writer, call, prev>>

\* the rest of the loop body after subscribe: on_message_callback is defined
\* and never installed, and window.update is not called
LoopTail ==
    UNCHANGED displayVars

\* client.subscribe(PAHO_TOPIC) succeeds, and the loop goes round
Subscribe ==
    /\ Alive
    /\ updater = "connected"
    /\ subscribes' = subscribes + 1
    /\ LoopTail
    /\ updater' = "check_updates"
    /\ UNCHANGED <<main, error, window, title, display_fields>>
    /\ UNCHANGED <<clients, connects, inbox>>

\* client.subscribe raises
SubscribeFail ==
    /\ Alive
    /\ updater = "connected"
    /\ Raise("ValueError")
    /\ UNCHANGED <<window, title, display_fields>>
    /\ UNCHANGED displayVars
    /\ UNCHANGED brokerVars

\* client.subscribe returns an error code, which the loop does not read
SubscribeRefused ==
    /\ Alive
    /\ updater = "connected"
    /\ LoopTail
    /\ updater' = "check_updates"
    /\ UNCHANGED <<main, error, window, title, display_fields>>
    /\ UNCHANGED brokerVars

\* the broker sends a message of the topic to a subscribed client; nothing
\* in the process reads it
BrokerPublish ==
    /\ main # "exited"
    /\ subscribes > 0
    /\ inbox < MaxMsgs
    /\ inbox' = inbox + 1
    /\ UNCHANGED <<main, updater, error, window, title, display_fields>>
    /\ UNCHANGED displayVars
    /\ UNCHANGED <<clients, connects, subscribes>>

----------------------------------------------------------------------------
(* Specifications *)

Init ==
    /\ main = "new"
    /\ updater = "unstarted"
    /\ error = "none"
    /\ window = "none"
    /\ title = <<>>
    /\ display_fields = <<>>
    /\ gui_elements = <<>>
    /\ screen = <<>>
    /\ painter = "none"
    /\ writer = <<>>
    /\ call = NoCall
    /\ prev = NoCall
    /\ clients = 0
    /\ connects = 0
    /\ subscribes = 0
    /\ inbox = 0

ConstructAny == \E fields \in FieldLists : Construct(<<"T">>, fields)
StartCaller == StartThread("idle")
UpdateAny == \E p \in Payloads(display_fields) : UpdateCall(p)

Next ==
    \/ ConstructAny
    \/ StartCaller
    \/ Show
    \/ Repaint
    \/ CloseWindow
    \/ UpdateAny
    \/ UpdateSet
    \/ UpdateKeyError
    \/ UpdateSkip
    \/ UpdateReturn

Spec == Init /\ [][Next]_vars

ConstructCarPark == Construct(CarParkTitle, CarParkFields)
StartUpdater == StartThread("check_updates")

BootNext ==
    \/ ConstructCarPark
    \/ StartUpdater
    \/ Show
    \/ Repaint
    \/ CloseWindow
    \/ NewClient
    \/ Connect
    \/ ConnectFail
    \/ Subscribe
    \/ SubscribeFail
    \/ SubscribeRefused
    \/ BrokerPublish

BootSpec == Init /\ [][BootNext]_vars

----------------------------------------------------------------------------
(* Properties *)

Unique(fields) ==
    \A r, q \in DOMAIN fields : r # q => fields[r] # fields[q]

\* the payload's key set is exactly the displayed field names
Exact(p) == DOMAIN p = Range(display_fields)

\* the payload lacks the name of at least one displayed field
Lacking(p) == ~(Range(display_fields) \subseteq DOMAIN p)

\* no field name ends with the separator
PlainNames ==
    \A r \in DOMAIN display_fields :
        RStrip(display_fields[r] \o SEP, SEP) = display_fields[r]

Shown == ValueTexts(gui_elements)

\* C1: after update(payload) has returned, for unique field names and a
\* payload whose keys are exactly those names, every field shows
\* payload[its name].
C1_UpdateShowsPayload ==
    (updater = "idle" /\ prev.active /\ Unique(display_fields)
        /\ Exact(prev.payload))
    => \A r \in DOMAIN display_fields :
           Shown[r] = prev.payload[display_fields[r]]

\* C2: an update whose payload lacks a displayed field's name never returns
\* normally, and once it has failed with the lookup error every field shows
\* what it showed when the call began.
C2_FailedUpdateChangesNothing ==
    /\ (updater = "idle" /\ prev.active) => ~Lacking(prev.payload)
    /\ (error = "KeyError" /\ Lacking(call.payload)) => Shown = call.before

\* C3: while the second of two updates with exact payloads P1, P2 is applied,
\* nothing painted by the render thread shows one field's P2 value beside
\* another field's P1 value; and when it has returned every field shows its
\* P2 value. Stated for field names that do not end with the separator.
C3_NoMixedPaint ==
    /\ (prev.active /\ call.active /\ painter = "main"
            /\ Unique(display_fields) /\ PlainNames
            /\ Exact(prev.payload) /\ Exact(call.payload))
       => ~ \E r, q \in DOMAIN display_fields :
              /\ prev.payload[display_fields[r]]
                     # call.payload[display_fields[r]]
              /\ prev.payload[display_fields[q]]
                     # call.payload[display_fields[q]]
              /\ screen[r] = call.payload[display_fields[r]]
              /\ screen[q] = prev.payload[display_fields[q]]
    /\ (updater = "idle" /\ prev.active /\ Unique(display_fields)
            /\ PlainNames /\ Exact(prev.payload))
       => \A r \in DOMAIN display_fields :
              Shown[r] = prev.payload[display_fields[r]]

\* C4: every value label was last set by the thread that runs the render
\* loop, and every repaint was executed by it.
C4_MutationsOnRenderThread ==
    /\ \A r \in DOMAIN writer : writer[r] = "main"
    /\ painter \in {"none", "main"}

\* C5: a step in which the background thread fails leaves the main thread
\* where it is, and the main thread leaves the render loop only in the step
\* that closes the window.
C5_FailureLeavesRenderLoop ==
    [][/\ (error' # error) => (main' = main)
       /\ (main = "mainloop" /\ main' # "mainloop")
              => (window = "open" /\ window' = "destroyed")]_vars

\* the background thread has failed and the render loop is running
C5_Witness ==
    /\ error # "none"
    /\ updater = "dead"
    /\ main = "mainloop"
    /\ window = "open"

\* C6: after construction from unique names and before any update, each
\* field has exactly one name label, in row = its position, and that row has
\* exactly one value label, showing the placeholder; there are no other
\* elements.
C6_OneRowPerField ==
    (main # "new" /\ ~call.active /\ ~prev.active /\ Unique(display_fields))
    => /\ Len(gui_elements) = 2 * Len(display_fields)
       /\ \A r \in DOMAIN display_fields :
            LET names == {k \in DOMAIN gui_elements :
                            /\ gui_elements[k].key.kind = "field"
                            /\ gui_elements[k].text
                                   = display_fields[r] \o SEP}
                values == {k \in DOMAIN gui_elements :
                            /\ gui_elements[k].key.kind = "value"
                            /\ gui_elements[k].row = r - 1}
            IN  /\ Cardinality(names) = 1
                /\ \A k \in names : /\ gui_elements[k].row = r - 1
                                    /\ gui_elements[k].column = 0
                /\ Cardinality(values) = 1
                /\ \A k \in values : /\ gui_elements[k].text = DISPLAY_INIT
                                     /\ gui_elements[k].column = 2
                /\ Shown[r] = DISPLAY_INIT

\* a display of two or more unique fields, just constructed
C6_Witness ==
    /\ main = "constructed"
    /\ Unique(display_fields)
    /\ Len(display_fields) >= 2
    /\ Len(gui_elements) = 2 * Len(display_fields)

\* C7: no display is ever constructed from a field list in which a name
\* occurs twice.
C7_DuplicateNamesRejected ==
    main # "new" => Unique(display_fields)

\* C8: when update(P) returns and the update that returned before it had the
\* same payload P, the display shows what it showed after that earlier call.
C8_UpdateIdempotent ==
    [][(updater = "in_update" /\ updater' = "idle"
            /\ prev.active /\ prev.payload = call.payload)
       => ValueTexts(gui_elements') = prev.after]_vars

\* a second update with the same exact payload has gone through every
\* element and is about to return, the first one having changed the display
C8_Witness ==
    /\ updater = "in_update"
    /\ call.pos > Len(gui_elements)
    /\ prev.active
    /\ prev.payload = call.payload
    /\ Exact(call.payload)
    /\ Len(display_fields) >= 2
    /\ \A r \in DOMAIN display_fields : Shown[r] # DISPLAY_INIT
    /\ Shown = prev.after

\* C9: check_updates creates at most one client, connects at most once and
\* subscribes at most once.
C9_OneConnection ==
    /\ clients <= 1
    /\ connects <= 1
    /\ subscribes <= 1

\* C10: in the CarPark_Display process the background thread is started
\* before the render loop is entered, update is never called, and the three
\* fields show the placeholder, in the labels and in what is painted.
C10_PlaceholdersForever ==
    /\ main \in {"mainloop", "exited"} => updater # "unstarted"
    /\ ~call.active
    /\ ~prev.active
    /\ main # "new" =>
         /\ display_fields = CarParkFields
         /\ \A r \in DOMAIN display_fields : Shown[r] = DISPLAY_INIT
    /\ screen # <<>> =>
         \A r \in DOMAIN display_fields : screen[r] = DISPLAY_INIT

\* the render loop runs and has painted, a subscription exists and messages
\* of the topic have arrived
C10_Witness ==
    /\ main = "mainloop"
    /\ screen # <<>>
    /\ subscribes > 0
    /\ inbox > 0

====
